---- MODULE Spec2Model ----
(***************************************************************************)
(* Model of src/main.py: the tweet monitor.  The registry monitor_flags,   *)
(* the request handlers receive_keywords and receive_stop (one thread per  *)
(* webhook request, stepping at the granularity of the statements that     *)
(* touch monitor_flags) and the polling threads monitor_tweets.            *)
(*                                                                         *)
(* Encodings.  A Python string is a sequence of one-character strings.     *)
(* A tweet id is a positive integer; 0 stands for a falsy id (None or "")  *)
(* and for latest_tweet_id = None.  A text that is None is the empty       *)
(* sequence: the code only tests a text for truthiness before using it.    *)
(* A request slot r that runs receive_keywords creates stop_event[r] and,  *)
(* at line 172, thread[r]; so events and threads are named by the slot.    *)
(***************************************************************************)
EXTENDS Integers, Sequences, FiniteSets

\* ------------------------------------------------------------- bounds
\* Number of webhook requests (handler threads) in one run.
MaxReq == 3
\* Tweet ids the upstream may return are 1..MaxId.
MaxId == 2
\* The observation counters stop counting at MaxCount.
MaxCount == 2

Reqs == 1..MaxReq
Ids == 1..MaxId
NoneId == 0

\* The keys (target_chat_id, twitter_user_id) requests are made for: two
\* Twitter users monitored from chat c1, one of them also from chat c2.
Keys == {<<"c1", "u1">>, <<"c1", "u2">>, <<"c2", "u1">>}
Chats == {k[1] : k \in Keys}

\* ------------------------------------------------------------- strings
UpperChars == <<"A","B","C","D","E","F","G","H","I","J","K","L","M",
                "N","O","P","Q","R","S","T","U","V","W","X","Y","Z">>
LowerChars == <<"a","b","c","d","e","f","g","h","i","j","k","l","m",
                "n","o","p","q","r","s","t","u","v","w","x","y","z">>

\* str.lower on one character: the table of the ASCII letters.
LowerTable ==
    [c \in {UpperChars[i] : i \in 1..Len(UpperChars)} |->
        LowerChars[CHOOSE i \in 1..Len(UpperChars) : UpperChars[i] = c]]
LowerChar(c) == IF c \in DOMAIN LowerTable THEN LowerTable[c] ELSE c

\* str.lower
lower(s) == [i \in 1..Len(s) |-> LowerChar(s[i])]

\* Python's  sub in s  on strings.
Contains(sub, s) ==
    \E i \in 0..(Len(s) - Len(sub)) : SubSeq(s, i + 1, i + Len(sub)) = sub

\* str.strip (the model's only whitespace character is the space).
RECURSIVE lstrip(_)
lstrip(s) == IF s # <<>> /\ Head(s) = " " THEN lstrip(Tail(s)) ELSE s
RECURSIVE rstrip(_)
rstrip(s) ==
    IF s # <<>> /\ s[Len(s)] = " " THEN rstrip(SubSeq(s, 1, Len(s) - 1)) ELSE s
strip(s) == rstrip(lstrip(s))

\* str.split(","): the pieces between commas, empty pieces included.
RECURSIVE split(_, _)
split(s, cur) ==
    IF s = <<>> THEN <<cur>>
    ELSE IF Head(s) = "," THEN <<cur>> \o split(Tail(s), <<>>)
    ELSE split(Tail(s), Append(cur, Head(s)))

RECURSIVE StripNonEmpty(_)
StripNonEmpty(ws) ==
    IF ws = <<>> THEN <<>>
    ELSE IF strip(Head(ws)) # <<>>
         THEN <<strip(Head(ws))>> \o StripNonEmpty(Tail(ws))
         ELSE StripNonEmpty(Tail(ws))

\* receive_keywords, lines 159-163: the keyword list of a message text.
ParseKeywords(msg) ==
    LET text == strip(msg) IN
    IF lower(text) = <<"n","o","n","e">> THEN <<>>
    ELSE StripNonEmpty(split(text, <<>>))

\* The filter without the two lower() calls: a case-sensitive match.
AnyKeywordCaseSensitive(keywords, tweet_text) ==
    \E i \in 1..Len(keywords) : Contains(keywords[i], tweet_text)

\* monitor_tweets, line 114:
\*   any(keyword.lower() in tweet_text.lower() for keyword in keywords)
AnyKeyword(keywords, tweet_text) ==
    \E i \in 1..Len(keywords) : Contains(lower(keywords[i]), lower(tweet_text))

\* ------------------------------------------------------------- inputs
TextLaunch == <<"B","i","g"," ","L","a","u","n","c","h"," ","T","o","d","a","y">>
TextNothing == <<"N","o","t","h","i","n","g"," ","i","n","t","e","r","e","s","t","i","n","g">>
MsgNone == <<"N","o","n","e">>
MsgLaunch == <<" ","l","a","u","n","c","h">>
MsgTwo == <<"m","o","o","n",","," ","N","O","T","H",",">>

\* What one call of get_user_tweets and the two extractions can yield.
\*   error   : RequestException caught at line 83, None is returned
\*   empty   : a falsy JSON document
\*   nopath  : KeyError / IndexError inside get_tweet_text and get_tweet_id
\*   badtype : a value of the wrong type on the path: TypeError, not caught there
\*   ok      : the path exists; full_text and id_str are what the document holds
\*   badtext : the path exists and id_str is an id, but full_text is a truthy
\*             value that is not a str (the JSON number 123)
Doc(shape, text, id) == [shape |-> shape, full_text |-> text, id_str |-> id]
NoDoc == Doc("none", <<>>, NoneId)
ErrorDoc == Doc("error", <<>>, NoneId)
Faults == {ErrorDoc, Doc("empty", <<>>, NoneId), Doc("nopath", <<>>, NoneId),
           Doc("badtype", <<>>, NoneId)}
Items == {Doc("ok", t, i) : t \in {TextLaunch, TextNothing}, i \in Ids}
OddItems == {Doc("ok", <<>>, 1), Doc("ok", TextLaunch, NoneId)}
Number == <<"123">>
BadText == Doc("badtext", Number, 1)
AllDocs == Faults \cup Items \cup OddItems \cup {BadText}

\* get_tweet_text / get_tweet_id, lines 50-64 (None is <<>> / NoneId).
get_tweet_text(d) == IF d.shape \in {"ok", "badtext"} THEN d.full_text ELSE <<>>
get_tweet_id(d) == IF d.shape \in {"ok", "badtext"} THEN d.id_str ELSE NoneId

Min(a, b) == IF a < b THEN a ELSE b

\* time.sleep(5), lines 116, 136 and 141: the sleep in ticks of one second.
SleepTicks == 5
Bump(n) == Min(n + 1, MaxCount)

\* ------------------------------------------------------------- state
VARIABLES
    monitor_flags,  \* line 36: the dict, as the sequence of its items in insertion order
    stop_event,     \* line 169: stop_event[r].is_set() of the Event made by request r
    req,            \* the handler thread of each webhook request
    thread,         \* line 172: the monitor_tweets thread started by request r
    obs             \* what an observer of thread r has counted (history, not program state)

vars == <<monitor_flags, stop_event, req, thread, obs>>

\* dict operations on monitor_flags.
HasKey(mf, k) == \E i \in 1..Len(mf) : mf[i].key = k
Lookup(mf, k) == mf[CHOOSE i \in 1..Len(mf) : mf[i].key = k].ev
SetItem(mf, k, e) ==
    IF HasKey(mf, k)
    THEN [i \in 1..Len(mf) |-> IF mf[i].key = k THEN [key |-> k, ev |-> e] ELSE mf[i]]
    ELSE Append(mf, [key |-> k, ev |-> e])
DelItem(mf, k) == SelectSeq(mf, LAMBDA x : x.key # k)
KeyList(mf) == [i \in 1..Len(mf) |-> mf[i].key]
KeySet(mf) == {mf[i].key : i \in 1..Len(mf)}

\* A handler's locals: the chat and the text of its message, the snapshot keys
\* and the position i of the for loop in it, count, and the reply it sent (or
\* the exception it ended with); did_set / did_del list the items whose Event
\* it has set / it has deleted (history); ev is the Event the handler has
\* fetched with monitor_flags[key] and has not called set() on yet.
NoEvent == 0
IdleReq == [kind |-> "idle", pc |-> "idle", chat |-> "", user |-> "",
            keys |-> <<>>, i |-> 1, count |-> 0, reply |-> "",
            did_set |-> {}, did_del |-> {}, ev |-> NoEvent]
Item(mf, k) == [key |-> k, ev |-> Lookup(mf, k)]
NoSent == [kind |-> "none", id |-> NoneId, ok |-> TRUE]
NoThread == [pc |-> "none", keywords |-> <<>>, latest_tweet_id |-> NoneId,
             tweets_data |-> NoDoc, sent |-> NoSent, ticks |-> 0]
NoObs == [notified |-> [i \in Ids |-> 0], fetched |-> {}, hi |-> NoneId,
          mono |-> TRUE, fetchAfter |-> 0, msgAfter |-> 0,
          lastOk |-> TRUE, presig |-> FALSE]

Init ==
    /\ monitor_flags = <<>>
    /\ stop_event = [r \in Reqs |-> FALSE]
    /\ req = [r \in Reqs |-> IdleReq]
    /\ thread = [r \in Reqs |-> NoThread]
    /\ obs = [r \in Reqs |-> NoObs]

\* Requests arrive one after another: a new request takes the first free slot.
Arrives(r) ==
    /\ req[r].pc = "idle"
    /\ \A q \in Reqs : q < r => req[q].pc # "idle"

\* ------------------------------------------------------------- receive_keywords
\* Lines 159-170: parse the keywords, make the Event, store it under the key.
StartRegister(r, chat, user, msg) ==
    /\ Arrives(r)
    /\ monitor_flags' = SetItem(monitor_flags, <<chat, user>>, r)
    /\ req' = [req EXCEPT ![r] = [IdleReq EXCEPT !.kind = "start", !.pc = "l171",
                                                !.chat = chat, !.user = user]]
    /\ thread' = [thread EXCEPT ![r].keywords = ParseKeywords(msg)]
    /\ UNCHANGED <<stop_event, obs>>

\* The thread started inside the loop body: its first test of the Event comes
\* after the first iteration (a loop tested at the bottom).
StartSpawnInLoop(r) ==
    /\ req[r].kind = "start" /\ req[r].pc = "l171"
    /\ thread' = [thread EXCEPT ![r].pc = "l107"]
    /\ req' = [req EXCEPT ![r].pc = "done", ![r].reply = "started"]
    /\ obs' = [obs EXCEPT ![r].presig = stop_event[r]]
    /\ UNCHANGED <<monitor_flags, stop_event>>

\* Lines 171-173: the reply is sent, the thread is started.  The observer notes
\* whether the Event was already set when the thread started.
StartSpawn(r) ==
    /\ req[r].kind = "start" /\ req[r].pc = "l171"
    /\ thread' = [thread EXCEPT ![r].pc = "l105"]
    /\ req' = [req EXCEPT ![r].pc = "done", ![r].reply = "started"]
    /\ obs' = [obs EXCEPT ![r].presig = stop_event[r]]
    /\ UNCHANGED <<monitor_flags, stop_event>>

\* Line 171: reply_text raises (the Bot API call fails); line 172 is never reached.
StartReplyFails(r) ==
    /\ req[r].kind = "start" /\ req[r].pc = "l171"
    /\ req' = [req EXCEPT ![r].pc = "raised", ![r].reply = "NetworkError"]
    /\ UNCHANGED <<monitor_flags, stop_event, thread, obs>>

\* ------------------------------------------------------------- receive_stop
\* Lines 184-186, 195-196, 200-201: a stop of one Twitter user; the membership
\* test.  For a key that is not there the handler goes into the reply_text of
\* line 201 and waits there for the Bot API.
StopCheck(r, chat, user) ==
    /\ Arrives(r)
    /\ req' = [req EXCEPT ![r] =
                 IF HasKey(monitor_flags, <<chat, user>>)
                 THEN [IdleReq EXCEPT !.kind = "stop", !.pc = "l197",
                                      !.chat = chat, !.user = user]
                 ELSE [IdleReq EXCEPT !.kind = "stop", !.pc = "in-reply:l201",
                                      !.chat = chat, !.user = user]]
    /\ UNCHANGED <<monitor_flags, stop_event, thread, obs>>

\* Line 197, monitor_flags[key]: the Event stored under the key now is fetched
\* from the dict; KeyError when the key has gone.
StopLookup(r) ==
    /\ req[r].kind = "stop" /\ req[r].pc = "l197" /\ req[r].ev = NoEvent
    /\ LET key == <<req[r].chat, req[r].user>> IN
       req' = [req EXCEPT ![r] =
                 IF HasKey(monitor_flags, key)
                 THEN [@ EXCEPT !.ev = Lookup(monitor_flags, key)]
                 ELSE [@ EXCEPT !.pc = "raised", !.reply = "KeyError"]]
    /\ UNCHANGED <<monitor_flags, stop_event, thread, obs>>

\* Line 197, .set(): the Event that was fetched is set, whatever the dict holds
\* under the key by now.
StopSet(r) ==
    /\ req[r].kind = "stop" /\ req[r].pc = "l197" /\ req[r].ev # NoEvent
    /\ stop_event' = [stop_event EXCEPT ![req[r].ev] = TRUE]
    /\ req' = [req EXCEPT ![r].pc = "l198", ![r].ev = NoEvent,
                           ![r].did_set = @ \cup {[key |-> <<req[r].chat, req[r].user>>,
                                                   ev |-> req[r].ev]}]
    /\ UNCHANGED <<monitor_flags, thread, obs>>

\* Lines 198-199: del monitor_flags[key] (KeyError when the key has gone); the
\* handler goes into the reply_text of line 199 and waits there.
StopDel(r) ==
    /\ req[r].kind = "stop" /\ req[r].pc = "l198"
    /\ LET key == <<req[r].chat, req[r].user>> IN
       IF HasKey(monitor_flags, key)
       THEN /\ monitor_flags' = DelItem(monitor_flags, key)
            /\ req' = [req EXCEPT ![r].pc = "in-reply:l199",
                                   ![r].did_del = @ \cup {Item(monitor_flags, key)}]
       ELSE /\ req' = [req EXCEPT ![r].pc = "raised", ![r].reply = "KeyError"]
            /\ UNCHANGED monitor_flags
    /\ UNCHANGED <<stop_event, thread, obs>>

\* Lines 184-188: "all": count = 0 and the snapshot list(monitor_flags.keys()).
StopAllBegin(r, chat) ==
    /\ Arrives(r)
    /\ req' = [req EXCEPT ![r] = [IdleReq EXCEPT !.kind = "all", !.pc = "l188",
                                                !.chat = chat,
                                                !.keys = KeyList(monitor_flags)]]
    /\ UNCHANGED <<monitor_flags, stop_event, thread, obs>>

\* Lines 193, 199, 201 and 202: the reply_text a stop handler waits in returns
\* and the handler ends (replied), or it raises (the Bot API call fails) and
\* the handler ends with that; after a stop-all the position of the loop, which
\* is over, is dropped then.
ReplyOf(pc) ==
    IF pc = "in-reply:l193" THEN "count"
    ELSE IF pc = "in-reply:l199" THEN "stopped" ELSE "notfound"
ReplyPcs == {"in-reply:l193", "in-reply:l199", "in-reply:l201"}
StopReply(r) ==
    /\ req[r].pc \in ReplyPcs
    /\ \E replied \in BOOLEAN :
         req' = [req EXCEPT ![r] =
                   IF replied
                   THEN [@ EXCEPT !.pc = "done", !.reply = ReplyOf(req[r].pc)]
                   ELSE [@ EXCEPT !.pc = "raised", !.reply = "NetworkError", !.i = 1]]
    /\ UNCHANGED <<monitor_flags, stop_event, thread, obs>>

\* Lines 188-190 and 193: the next key of the snapshot; a key of another chat is
\* passed over, for a key of this chat the Event stored under it now is fetched
\* from the dict (monitor_flags[key] of line 190; KeyError when the key has
\* gone); after the last key the handler goes into the reply_text of line 193.
StopAllNext(r) ==
    /\ req[r].kind = "all" /\ req[r].pc = "l188" /\ req[r].ev = NoEvent
    /\ IF req[r].i > Len(req[r].keys)
       THEN /\ req' = [req EXCEPT ![r].pc = "in-reply:l193"]
            /\ UNCHANGED stop_event
       ELSE LET key == req[r].keys[req[r].i] IN
            IF key[1] # req[r].chat
            THEN /\ req' = [req EXCEPT ![r].i = @ + 1]
                 /\ UNCHANGED stop_event
            ELSE IF HasKey(monitor_flags, key)
            THEN /\ req' = [req EXCEPT ![r].ev = Lookup(monitor_flags, key)]
                 /\ UNCHANGED stop_event
            ELSE /\ req' = [req EXCEPT ![r].pc = "raised", ![r].reply = "KeyError"]
                 /\ UNCHANGED stop_event
    /\ UNCHANGED <<monitor_flags, thread, obs>>

\* Line 190, .set(): the Event that was fetched is set, whatever the dict holds
\* under the key by now.
StopAllSet(r) ==
    /\ req[r].kind = "all" /\ req[r].pc = "l188" /\ req[r].ev # NoEvent
    /\ stop_event' = [stop_event EXCEPT ![req[r].ev] = TRUE]
    /\ req' = [req EXCEPT ![r].pc = "l191", ![r].ev = NoEvent,
                           ![r].did_set = @ \cup {[key |-> req[r].keys[req[r].i],
                                                   ev |-> req[r].ev]}]
    /\ UNCHANGED <<monitor_flags, thread, obs>>

\* Lines 191-192: del monitor_flags[key]; count += 1; on to the next key.
StopAllDel(r) ==
    /\ req[r].kind = "all" /\ req[r].pc = "l191"
    /\ LET key == req[r].keys[req[r].i] IN
       IF HasKey(monitor_flags, key)
       THEN /\ monitor_flags' = DelItem(monitor_flags, key)
            /\ req' = [req EXCEPT ![r].pc = "l188", ![r].i = @ + 1,
                                   ![r].count = @ + 1,
                                   ![r].did_del = @ \cup {Item(monitor_flags, key)}]
       ELSE /\ req' = [req EXCEPT ![r].pc = "raised", ![r].reply = "KeyError"]
            /\ UNCHANGED monitor_flags
    /\ UNCHANGED <<stop_event, thread, obs>>

\* ------------------------------------------------------------- monitor_tweets
\* Line 105: while not stop_event.is_set(); line 142 when it is set.
WorkerCheck(w) ==
    /\ thread[w].pc = "l105"
    /\ thread' = [thread EXCEPT ![w].pc = IF stop_event[w] THEN "stopped" ELSE "l107"]
    /\ UNCHANGED <<monitor_flags, stop_event, req, obs>>

\* Lines 107, 80: the request to the upstream is sent.
FetchStart(w) ==
    /\ thread[w].pc = "l107"
    /\ thread' = [thread EXCEPT ![w].pc = "fetch"]
    /\ obs' = [obs EXCEPT ![w].fetchAfter = IF stop_event[w] THEN Bump(@) ELSE @]
    /\ UNCHANGED <<monitor_flags, stop_event, req>>

\* Line 111 without the comparison with latest_tweet_id.
IsNewNoDedup(tweet_text, tweet_id, latest_tweet_id) ==
    /\ tweet_text # <<>>
    /\ tweet_id # NoneId

\* Line 111: the item is there and is not the one seen last.
IsNew(tweet_text, tweet_id, latest_tweet_id) ==
    /\ tweet_text # <<>>
    /\ tweet_id # NoneId
    /\ (latest_tweet_id = NoneId \/ tweet_id # latest_tweet_id)

\* Lines 108-118: what one iteration does with the document d.
\*   "fault"    : an exception reaches line 137 before line 118: the TypeError
\*                of lines 52 / 60, or the AttributeError of tweet_text.lower()
\*                at line 114
\*   "faultmsg" : an exception reaches line 137 after line 118: the
\*                AttributeError of tweet_text.startswith at line 120
\*   "none"     : nothing to do, line 136
\*   "skip"     : the keyword filter, lines 115-117
\*   "notify"   : lines 118-135
Decide(d, keywords, latest_tweet_id) ==
    IF d.shape = "badtype" THEN "fault"
    ELSE IF d.shape \in {"error", "empty"} THEN "none"
    ELSE IF ~IsNew(get_tweet_text(d), get_tweet_id(d), latest_tweet_id) THEN "none"
    ELSE IF get_tweet_text(d) = Number
         THEN IF keywords # <<>> THEN "fault" ELSE "faultmsg"
    ELSE IF keywords # <<>> /\ ~AnyKeyword(keywords, get_tweet_text(d)) THEN "skip"
    ELSE "notify"

\* The decisions that end in the except clause of line 137, and those that
\* have run the assignment of line 118.
Faulted(decision) == decision \in {"fault", "faultmsg"}
Marks(decision) == decision \in {"notify", "faultmsg"}

\* The message one iteration has handed to send_telegram_message, if any, once
\* requests.post has returned; ok is whether the Bot API took it.
Message(decision, d, ok) ==
    IF decision = "notify" THEN [kind |-> "tweet", id |-> get_tweet_id(d), ok |-> ok]
    ELSE IF Faulted(decision) THEN [kind |-> "error", id |-> NoneId, ok |-> ok]
    ELSE NoSent

\* The except clause of line 137 leaving the loop (a break in place of the
\* sleep of line 141).
SleepAtFaultStops(decision) ==
    IF decision = "skip" THEN "l116" ELSE IF Faulted(decision) THEN "stopped" ELSE "l136"

\* Lines 116, 136, 141: the sleep the iteration ends in.
SleepAt(decision) ==
    IF decision = "skip" THEN "l116" ELSE IF Faulted(decision) THEN "l141" ELSE "l136"

\* Lines 135, 140: the call of send_telegram_message the iteration makes, if
\* any ("post:l135": the new-tweet message, "post:l140": the error message).
Sends(decision) == decision = "notify" \/ Faulted(decision)
PostAt(decision) == IF decision = "notify" THEN "post:l135" ELSE "post:l140"
PostPcs == {"post:l135", "post:l140"}

\* The observer's record of one iteration of thread w, made when the message
\* (if any) is handed to send_telegram_message.  mono: the documents that came
\* with an id were items (a text that is a str) and their ids never decreased.
Observe(o, d, decision) ==
    LET wellFormed == d.shape = "ok" /\ d.full_text # <<>> /\ d.id_str # NoneId
    IN [o EXCEPT
          !.fetched = IF wellFormed THEN @ \cup {d.id_str} ELSE @,
          !.hi = IF wellFormed /\ d.id_str > @ THEN d.id_str ELSE @,
          !.mono = IF wellFormed THEN @ /\ d.id_str >= o.hi
                   ELSE IF d.shape = "badtext" THEN FALSE ELSE @,
          !.notified = IF decision = "notify"
                       THEN [@ EXCEPT ![d.id_str] = Bump(@)] ELSE @]

\* The iteration with latest_tweet_id kept in one module-level variable that
\* every thread writes, instead of a local of monitor_tweets.
FetchReturnSharedLatest(w, d) ==
    /\ thread[w].pc = "fetch"
    /\ LET decision == Decide(d, thread[w].keywords, thread[w].latest_tweet_id) IN
       /\ thread' = [v \in Reqs |->
              IF v = w
              THEN [thread[w] EXCEPT
                      !.tweets_data = d,
                      !.latest_tweet_id = IF Marks(decision) THEN get_tweet_id(d) ELSE @,
                      !.pc = IF Sends(decision) THEN PostAt(decision)
                             ELSE SleepAt(decision),
                      !.ticks = IF Sends(decision) THEN @ ELSE SleepTicks]
              ELSE [thread[v] EXCEPT
                      !.latest_tweet_id = IF Marks(decision) THEN get_tweet_id(d) ELSE @]]
       /\ obs' = [obs EXCEPT ![w] = Observe(@, d, decision)]
    /\ UNCHANGED <<monitor_flags, stop_event, req>>

\* The iteration without the assignment of line 118 (left for after the send).
FetchReturnNoMark(w, d) ==
    /\ thread[w].pc = "fetch"
    /\ LET decision == Decide(d, thread[w].keywords, thread[w].latest_tweet_id) IN
       /\ thread' = [thread EXCEPT
              ![w].tweets_data = d,
              ![w].pc = IF Sends(decision) THEN PostAt(decision) ELSE SleepAt(decision),
              ![w].ticks = IF Sends(decision) THEN @ ELSE SleepTicks]
       /\ obs' = [obs EXCEPT ![w] = Observe(@, d, decision)]
    /\ UNCHANGED <<monitor_flags, stop_event, req>>

\* Lines 107-135 / 107-140: get_user_tweets returns d; the iteration up to its
\* call of requests.post (line 92), where the thread waits for the Bot API, or,
\* when it has no message to send, up to its sleep, which has all its ticks to
\* go.  Nothing in it is shared with another thread.
FetchReturn(w, d) ==
    /\ thread[w].pc = "fetch"
    /\ LET decision == Decide(d, thread[w].keywords, thread[w].latest_tweet_id) IN
       /\ thread' = [thread EXCEPT
              ![w].tweets_data = d,
              ![w].latest_tweet_id = IF Marks(decision) THEN get_tweet_id(d) ELSE @,
              ![w].pc = IF Sends(decision) THEN PostAt(decision) ELSE SleepAt(decision),
              ![w].ticks = IF Sends(decision) THEN @ ELSE SleepTicks]
       /\ obs' = [obs EXCEPT ![w] = Observe(@, d, decision)]
    /\ UNCHANGED <<monitor_flags, stop_event, req>>

\* Lines 92-96, then 136 or 141: requests.post returns (ok: the Bot API took
\* the message; a failure is logged, never raised) and the thread goes to its
\* sleep.  The observer notes whether the last new-tweet message was taken,
\* and counts the message when the Event was set before it was out.
PostReturn(w, ok) ==
    /\ thread[w].pc \in PostPcs
    /\ LET decision == IF thread[w].pc = "post:l135" THEN "notify" ELSE "fault" IN
       /\ thread' = [thread EXCEPT
              ![w].sent = Message(decision, thread[w].tweets_data, ok),
              ![w].pc = SleepAt(decision),
              ![w].ticks = SleepTicks]
       /\ obs' = [obs EXCEPT ![w].lastOk = IF decision = "notify" THEN ok ELSE @,
                             ![w].msgAfter = IF stop_event[w] THEN Bump(@) ELSE @]
    /\ UNCHANGED <<monitor_flags, stop_event, req>>

\* time.sleep(5) returns (the ticks left have all passed); back to line 105.
\* tweets_data is dead from here to the next return of get_user_tweets, and the
\* message is out: both are dropped.
Sleep(w) ==
    /\ thread[w].pc \in {"l116", "l136", "l141"}
    /\ thread' = [thread EXCEPT ![w].pc = "l105", ![w].tweets_data = NoDoc,
                                 ![w].sent = NoSent, ![w].ticks = 0]
    /\ UNCHANGED <<monitor_flags, stop_event, req, obs>>

\* One tick of time.sleep(5): the thread stays in the sleep while ticks are
\* left, whatever the Event is (time.sleep does not look at it); with the last
\* tick the sleep returns, as in Sleep.
SleepTick(w) ==
    /\ thread[w].pc \in {"l116", "l136", "l141"}
    /\ thread[w].ticks > 0
    /\ thread' = IF thread[w].ticks > 1
                 THEN [thread EXCEPT ![w].ticks = @ - 1]
                 ELSE [thread EXCEPT ![w].pc = "l105", ![w].tweets_data = NoDoc,
                                     ![w].sent = NoSent, ![w].ticks = 0]
    /\ UNCHANGED <<monitor_flags, stop_event, req, obs>>

\* ------------------------------------------------------------- specifications
\* The registry under concurrent requests: any requests on any keys; the upstream
\* is down (every fetch is a FetchError), so the threads only poll.
Next ==
    \/ \E r \in Reqs, k \in Keys : StartRegister(r, k[1], k[2], MsgNone)
    \/ \E r \in Reqs : StartSpawn(r)
    \/ \E r \in Reqs : StartReplyFails(r)
    \/ \E r \in Reqs, k \in Keys : StopCheck(r, k[1], k[2])
    \/ \E r \in Reqs : StopLookup(r)
    \/ \E r \in Reqs : StopSet(r)
    \/ \E r \in Reqs : StopDel(r)
    \/ \E r \in Reqs : StopReply(r)
    \/ \E r \in Reqs, chat \in Chats : StopAllBegin(r, chat)
    \/ \E r \in Reqs : StopAllNext(r)
    \/ \E r \in Reqs : StopAllSet(r)
    \/ \E r \in Reqs : StopAllDel(r)
    \/ \E w \in Reqs : WorkerCheck(w)
    \/ \E w \in Reqs : FetchStart(w)
    \/ \E w \in Reqs : FetchReturn(w, ErrorDoc)
    \/ \E w \in Reqs : Sleep(w)

Spec == Init /\ [][Next]_vars

\* One subscription, every kind of upstream answer and delivery outcome, and
\* stop requests for it.
WorkerNext ==
    \/ \E msg \in {MsgNone, MsgLaunch, MsgTwo} : StartRegister(1, "c1", "u1", msg)
    \/ StartSpawn(1)
    \/ StopCheck(2, "c1", "u1")
    \/ StopLookup(2)
    \/ StopSet(2)
    \/ StopDel(2)
    \/ StopReply(2)
    \/ WorkerCheck(1)
    \/ FetchStart(1)
    \/ \E d \in AllDocs : FetchReturn(1, d)
    \/ \E ok \in BOOLEAN : PostReturn(1, ok)
    \/ Sleep(1)

WorkerSpec == Init /\ [][WorkerNext]_vars

\* Two subscriptions of one chat side by side, with answers of every kind: an
\* error, a fault, a filtered item and a new item.
PairDocs == {ErrorDoc, Doc("badtype", <<>>, NoneId),
             Doc("ok", TextLaunch, 1), Doc("ok", TextNothing, MaxId)}
PairNext ==
    \/ StartRegister(1, "c1", "u1", MsgNone)
    \/ StartRegister(2, "c1", "u2", MsgLaunch)
    \/ \E r \in {1, 2} : StartSpawn(r)
    \/ \E w \in {1, 2} : WorkerCheck(w)
    \/ \E w \in {1, 2} : FetchStart(w)
    \/ \E w \in {1, 2}, d \in PairDocs : FetchReturn(w, d)
    \/ \E w \in {1, 2}, ok \in BOOLEAN : PostReturn(w, ok)
    \/ \E w \in {1, 2} : Sleep(w)
    \/ StopAllBegin(3, "c1")
    \/ StopAllNext(3)
    \/ StopAllSet(3)
    \/ StopAllDel(3)
    \/ StopReply(3)

PairSpec == Init /\ [][PairNext]_vars

\* One subscription with the keyword "launch", its sleeps taken tick by tick,
\* and a stop request for it: an answer for each of the three sleeps (nothing
\* new, a filtered item, a fault) and a new item.
TickDocs == {ErrorDoc, Doc("badtype", <<>>, NoneId),
             Doc("ok", TextNothing, 1), Doc("ok", TextLaunch, MaxId)}
TickNext ==
    \/ StartRegister(1, "c1", "u1", MsgLaunch)
    \/ StartSpawn(1)
    \/ StopCheck(2, "c1", "u1")
    \/ StopLookup(2)
    \/ StopSet(2)
    \/ StopDel(2)
    \/ StopReply(2)
    \/ WorkerCheck(1)
    \/ FetchStart(1)
    \/ \E d \in TickDocs : FetchReturn(1, d)
    \/ \E ok \in BOOLEAN : PostReturn(1, ok)
    \/ SleepTick(1)

TickSpec == Init /\ [][TickNext]_vars

\* ------------------------------------------------------------- properties
\* The places of a running thread (state Running); "stopped" is line 142.
WorkerPcs == {"l105", "l107", "fetch", "post:l135", "post:l140", "l116", "l136", "l141"}
SleepPcs == {"l116", "l136", "l141"}

\* Thread w deals with a document in this step: get_user_tweets has returned
\* thread'[w].tweets_data and the thread has gone on to send a message
\* (HandsTweet: the new-tweet message, HandsError: the error message) or,
\* with nothing to send, to its sleep.
Polled(w) == thread[w].pc = "fetch" /\ thread'[w].pc # "fetch"
HandsTweet(w) == thread'[w].pc = "post:l135"
HandsError(w) == thread'[w].pc = "post:l140"

\* requests.post returns to thread w in this step.
Posted(w) == thread[w].pc \in PostPcs /\ thread'[w].pc \notin PostPcs

\* A fetched item: the document has the path, a text and an id.
IsItem(d) == d.shape = "ok" /\ d.full_text # <<>> /\ d.id_str # NoneId

\* C1: for a worker with no keywords whose fetched items have come with ids
\* that never decrease (strictly increasing ids, each possibly fetched again
\* on consecutive polls), every id fetched so far has been notified exactly
\* once, no other id has been notified, and latest_tweet_id is the id fetched
\* last; so a poll that returns latest_tweet_id again has notified nothing.
C1_OneNotifyPerId ==
    \A w \in Reqs :
        (thread[w].keywords = <<>> /\ obs[w].mono) =>
            /\ \A i \in Ids :
                 obs[w].notified[i] = IF i \in obs[w].fetched THEN 1 ELSE 0
            /\ obs[w].fetched # {} => thread[w].latest_tweet_id = obs[w].hi

\* C1 witness: every id has been fetched in increasing order, and the poll
\* just finished returned the last id again and sent nothing.
C1_Witness ==
    /\ thread[1].keywords = <<>> /\ obs[1].mono
    /\ obs[1].fetched = Ids
    /\ thread[1].pc = "l136"
    /\ IsItem(thread[1].tweets_data)
    /\ thread[1].tweets_data.id_str = thread[1].latest_tweet_id
    /\ thread[1].sent = NoSent

\* C7: when get_user_tweets fails (a FetchError), the iteration hands a
\* diagnostic message to send_telegram_message (and sleeps once it is out);
\* the worker stays Running and latest_tweet_id is unchanged.
C7_FetchErrorDiagnostic ==
    [][\A w \in Reqs :
         (Polled(w) /\ thread'[w].tweets_data.shape = "error") =>
             /\ HandsError(w)
             /\ thread'[w].latest_tweet_id = thread[w].latest_tweet_id]_vars

\* Two characters are the same letter up to case.
SameLetter(a, b) ==
    \/ a = b
    \/ \E i \in 1..Len(UpperChars) : {a, b} = {UpperChars[i], LowerChars[i]}

\* The keyword occurs in the text as a substring, case ignored.
OccursIn(keyword, text) ==
    \E p \in 1..Len(text) :
        /\ p + Len(keyword) - 1 <= Len(text)
        /\ \A j \in 1..Len(keyword) : SameLetter(keyword[j], text[p + j - 1])

\* C8: for a fetched item whose id differs from latest_tweet_id: if there are
\* keywords and none occurs in the text, case ignored, nothing is sent and
\* latest_tweet_id and the notification counts stay; otherwise the new-tweet
\* message for that id is sent.
C8_KeywordDecision ==
    [][\A w \in Reqs :
         LET d == thread'[w].tweets_data
             kws == thread[w].keywords
         IN (Polled(w) /\ IsItem(d) /\ d.id_str # thread[w].latest_tweet_id) =>
              IF kws # <<>> /\ \A i \in 1..Len(kws) : ~OccursIn(kws[i], d.full_text)
              THEN /\ thread'[w].pc = "l116"
                   /\ thread'[w].latest_tweet_id = thread[w].latest_tweet_id
                   /\ obs'[w].notified = obs[w].notified
              ELSE /\ HandsTweet(w)
                   /\ thread'[w].latest_tweet_id = d.id_str
                   /\ obs'[w].notified[d.id_str] = Bump(obs[w].notified[d.id_str])]_vars

\* C8 witness: keywords ["launch"], the text "Nothing interesting" under a new
\* id: the iteration ended in the filter's sleep, after the text "Big Launch
\* Today" had been notified.
C8_Witness ==
    /\ thread[1].keywords = <<<<"l","a","u","n","c","h">>>>
    /\ thread[1].pc = "l116"
    /\ thread[1].tweets_data.full_text = TextNothing
    /\ thread[1].latest_tweet_id # NoneId
    /\ thread[1].latest_tweet_id # thread[1].tweets_data.id_str

\* C9: a step of one worker (a poll that notifies, a FetchError, a failed
\* delivery, a caught fault, a check or a sleep) leaves every other worker's
\* state, every Event and the registry as they are, and a worker that could
\* take its next step before can take it after.
C9_WorkersIsolated ==
    [][\A w \in Reqs, v \in Reqs :
         (w # v /\ thread[w].pc \in WorkerPcs /\ thread'[w] # thread[w]) =>
             /\ thread'[v] = thread[v]
             /\ obs'[v] = obs[v]
             /\ stop_event' = stop_event
             /\ monitor_flags' = monitor_flags
             /\ (thread[v].pc \in WorkerPcs => thread'[v].pc \in WorkerPcs)]_vars

\* C9 witness: worker 2 is in the sleep after a caught fault and worker 1 has
\* just had a delivery fail, each with its own latest_tweet_id.
C9_Witness ==
    /\ thread[2].pc = "l141" /\ thread[2].latest_tweet_id = 1
    /\ thread[1].pc = "l136" /\ thread[1].sent.kind = "tweet" /\ ~thread[1].sent.ok
    /\ thread[1].latest_tweet_id = MaxId

\* The key a stop or start request is for.
KeyOf(r) == <<req[r].chat, req[r].user>>
KeyOfNext(r) == <<req'[r].chat, req'[r].user>>

\* The items of other keys than those in ks are the same before and after.
OthersKept(ks) ==
    \A k \in Keys \ ks :
        /\ HasKey(monitor_flags', k) <=> HasKey(monitor_flags, k)
        /\ HasKey(monitor_flags, k) =>
              Lookup(monitor_flags', k) = Lookup(monitor_flags, k)

\* C2: a start for a key that is in the registry (a second start while the
\* first is still registered) is rejected with Conflict and leaves the
\* registry as it is; and no key has two workers that are both running.
C2_DuplicateStartRejected ==
    /\ [][\A r \in Reqs :
            (Arrives(r) /\ req'[r].kind = "start"
                        /\ HasKey(monitor_flags, KeyOfNext(r))) =>
                /\ monitor_flags' = monitor_flags
                /\ req'[r].reply = "Conflict"]_vars
    /\ [](\A r \in Reqs, q \in Reqs :
            (r # q /\ req[r].kind = "start" /\ req[q].kind = "start"
                   /\ KeyOf(r) = KeyOf(q)) =>
                ~(thread[r].pc \in WorkerPcs /\ thread[q].pc \in WorkerPcs
                    /\ ~stop_event[r] /\ ~stop_event[q]))

\* C3: every key in the registry has a live worker that holds the Event stored
\* under the key (thread e is the one started with Event e) and is Running.
C3_RegisteredKeyHasRunningWorker ==
    \A i \in 1..Len(monitor_flags) : thread[monitor_flags[i].ev].pc \in WorkerPcs

\* The keys of chat c among those in the snapshot of request r.
SnapshotKeys(r) ==
    {req[r].keys[j] : j \in 1..Len(req[r].keys)} \cap {k \in Keys : k[1] = req[r].chat}

\* C4: a stop of a key that is registered: the set() of line 197 sets the
\* Event stored under the key then and nothing else; the step of line 198 removes
\* that key and leaves every other item, and every Event, as it is; the item
\* a stop has removed is the one whose Event it set, so that the worker of the
\* removed item has its Event set (and can reach Stopped); and a worker starts
\* at most one fetch after its Event was set.
C4_StopStopsWorker ==
    /\ [][\A r \in Reqs :
            (req[r].kind = "stop" /\ req[r].pc = "l197" /\ req'[r].pc = "l198") =>
                /\ monitor_flags' = monitor_flags
                /\ HasKey(monitor_flags, KeyOf(r))
                /\ stop_event' = [stop_event EXCEPT
                                     ![Lookup(monitor_flags, KeyOf(r))] = TRUE]]_vars
    /\ [][\A r \in Reqs :
            (req[r].kind = "stop" /\ req[r].pc = "l198"
                                  /\ req'[r].pc = "in-reply:l199") =>
                /\ ~HasKey(monitor_flags', KeyOf(r))
                /\ OthersKept({KeyOf(r)})
                /\ stop_event' = stop_event]_vars
    /\ [](\A r \in Reqs :
            req[r].kind = "stop" =>
                /\ req[r].did_del # {} => req[r].did_del = req[r].did_set
                /\ \A e \in req[r].did_del : stop_event[e.ev])
    /\ [](\A w \in Reqs : obs[w].fetchAfter <= 1)

C6_StopAllOfChat ==
    /\ [](\A r \in Reqs :
            (req[r].kind = "all" /\ req[r].pc \in {"in-reply:l193", "done", "raised"}) =>
                /\ {e.key : e \in req[r].did_del} = SnapshotKeys(r)
                /\ req[r].did_del = req[r].did_set
                /\ \A e \in req[r].did_del : stop_event[e.ev]
                /\ req[r].count = Cardinality(req[r].did_del))
    /\ [][\A r \in Reqs :
            (req[r].kind = "all" /\ req'[r] # req[r]) =>
                /\ OthersKept({k \in Keys : k[1] = req[r].chat})
                /\ \A k \in Keys :
                      (k[1] # req[r].chat /\ HasKey(monitor_flags, k)) =>
                          stop_event'[Lookup(monitor_flags, k)] =
                              stop_event[Lookup(monitor_flags, k)]]_vars

\* C10: in no state is a key in the registry while no worker for it is alive,
\* and in no state is a key out of the registry while a worker for it is
\* still running.
C10_RegistryMatchesWorkers ==
    \A k \in Keys :
        LET live == {w \in Reqs : /\ req[w].kind = "start" /\ KeyOf(w) = k
                                  /\ thread[w].pc \in WorkerPcs}
        IN /\ HasKey(monitor_flags, k) => live # {}
           /\ ~HasKey(monitor_flags, k) => live = {}

\* C11: stop and stop-all requests running at the same time on a key that is
\* registered: none of them ends with an error (the KeyError of lines 190-191
\* and 197-198), and no item is reported stopped by two requests.
C11_ConcurrentStopsAtomic ==
    /\ \A r \in Reqs :
          req[r].kind \in {"stop", "all"} => req[r].reply # "KeyError"
    /\ \A r \in Reqs, q \in Reqs :
          r # q => req[r].did_del \cap req[q].did_del = {}

\* The iteration that ends in this step met a failure: the fetch failed, or
\* the document made the parse, the keyword test or the building of the
\* message raise.
Failed(w) ==
    LET d == thread'[w].tweets_data IN
    \/ d.shape \in {"error", "badtype"}
    \/ d.shape = "badtext" /\ d.id_str # thread[w].latest_tweet_id

\* C12: an iteration that meets a failure of any kind (fetch, parse,
\* evaluation, message construction) hands a diagnostic message to
\* send_telegram_message and, when requests.post has returned, goes to the
\* sleep of line 141: the worker stays Running and is not Stopped.
C12_FailureCaughtAndReported ==
    [][\A w \in Reqs :
         /\ (Polled(w) /\ Failed(w)) => HandsError(w)
         /\ (Posted(w) /\ thread[w].pc = "post:l140") =>
                thread'[w].sent.kind = "error" /\ thread'[w].pc = "l141"]_vars

\* C13: when the Bot API does not take a new-tweet message, the iteration
\* still ends in the sleep of line 136 (the worker is Running) with
\* latest_tweet_id the id of that item; and a later poll that returns the id
\* whose delivery failed sends nothing, leaves latest_tweet_id as it is and
\* ends in the sleep: the item is not sent again.
C13_FailedDeliveryNotRetried ==
    [][\A w \in Reqs :
         LET d == thread'[w].tweets_data IN
         /\ (Posted(w) /\ thread'[w].sent.kind = "tweet" /\ ~thread'[w].sent.ok) =>
                /\ thread'[w].pc = "l136"
                /\ thread'[w].latest_tweet_id = d.id_str
                /\ thread'[w].sent.id = d.id_str
         /\ (Polled(w) /\ ~obs[w].lastOk /\ IsItem(d)
                       /\ d.id_str = thread[w].latest_tweet_id) =>
                /\ thread'[w].pc = "l136" /\ thread'[w].sent = NoSent
                /\ thread'[w].latest_tweet_id = thread[w].latest_tweet_id]_vars

\* C13 witness: the delivery of the item with the highest id failed, and the
\* poll just finished returned that id again and sent nothing.
C13_Witness ==
    /\ ~obs[1].lastOk
    /\ obs[1].notified[MaxId] = 1
    /\ thread[1].pc = "l136"
    /\ IsItem(thread[1].tweets_data)
    /\ thread[1].tweets_data.id_str = MaxId
    /\ thread[1].latest_tweet_id = MaxId
    /\ thread[1].sent = NoSent

\* The document of a fetch that succeeded has no item at the path: it is empty,
\* a key or an index is missing, a level holds a value of the wrong type, or
\* the text or the id is empty.
ShapeMismatch(d) ==
    \/ d.shape \in {"empty", "nopath", "badtype"}
    \/ d.shape = "ok" /\ (d.full_text = <<>> \/ d.id_str = NoneId)

\* C14: a poll whose document has no item at the expected path, for every kind
\* of mismatch, is nothing new: no message of any kind is handed to
\* send_telegram_message, latest_tweet_id is unchanged and the worker goes to
\* the sleep of line 136.
C14_ShapeMismatchIsNothingNew ==
    [][\A w \in Reqs :
         (Polled(w) /\ ShapeMismatch(thread'[w].tweets_data)) =>
             /\ thread'[w].sent = NoSent
             /\ thread'[w].latest_tweet_id = thread[w].latest_tweet_id
             /\ thread'[w].pc = "l136"]_vars

\* C15: the sleep between polls can be interrupted: with the delay taken as
\* SleepTicks ticks, the next step of a worker that is in one of its sleeps
\* (line 116, 136 or 141) with its Event set takes it out of the sleep; it
\* does not stay for the ticks that are left.
C15_SleepInterruptible ==
    [][\A w \in Reqs :
         (stop_event[w] /\ thread[w].pc \in SleepPcs /\ thread'[w] # thread[w]) =>
             thread'[w].pc \notin SleepPcs]_vars

\* C16: latest_tweet_id starts unset and changes only in a step that acts on
\* a Notify, to the id of the item whose new-tweet message that step hands to
\* send_telegram_message; it never changes in a step that skips (the same id,
\* an empty item, a filtered item), in a FetchError or in a caught fault (a
\* step that hands the error message of line 140).
C16_LatestIsLastNotified ==
    /\ \A w \in Reqs :
          (\A i \in Ids : obs[w].notified[i] = 0) => thread[w].latest_tweet_id = NoneId
    /\ [][\A w \in Reqs :
            thread'[w].latest_tweet_id # thread[w].latest_tweet_id =>
                /\ Polled(w) /\ HandsTweet(w)
                /\ thread'[w].latest_tweet_id = thread'[w].tweets_data.id_str]_vars

\* C17: a worker is Stopped only when its own Event is set; a Stopped worker
\* takes no further step (its state and what it has sent stay as they are);
\* and an Event that is set is never cleared.
C17_StoppedOnlyWhenSignalled ==
    /\ [](\A w \in Reqs : thread[w].pc = "stopped" => stop_event[w])
    /\ [][\A w \in Reqs :
            thread[w].pc = "stopped" =>
                thread'[w] = thread[w] /\ obs'[w] = obs[w]]_vars
    /\ [][\A w \in Reqs : stop_event[w] => stop_event'[w]]_vars

\* C17 witness: worker 1 is Stopped, its Event set by a stop-all that has not
\* yet come to worker 2, which is in the sleep after a caught fault.
C17_Witness ==
    /\ thread[1].pc = "stopped" /\ stop_event[1]
    /\ thread[2].pc = "l141" /\ ~stop_event[2]
    /\ req[3].kind = "all" /\ req[3].pc = "l191"

\* C18: in the lifetime of one worker, whatever the sequence of documents the
\* fetches return (an earlier id may come back after another one: A, B, A),
\* the new-tweet message for an id is handed to send_telegram_message at most
\* once.
C18_AtMostOneNotifyPerId ==
    \A w \in Reqs : \A i \in Ids : obs[w].notified[i] <= 1

\* C19: every worker that is not Stopped either has its Event set already or
\* has its key in the registry with its own Event stored under it (thread w is
\* the one started with Event w), so that a stop or a stop-all can still set it.
C19_EveryWorkerStoppable ==
    \A w \in Reqs :
        thread[w].pc \in WorkerPcs =>
            \/ stop_event[w]
            \/ /\ HasKey(monitor_flags, KeyOf(w))
               /\ Lookup(monitor_flags, KeyOf(w)) = w

\* C20: once its Event is set at most one more message of a worker (a
\* new-tweet message or an error message) gets out through requests.post; and a
\* worker whose Event was set before its thread started (a stop between lines
\* 170 and 172) starts no fetch and sends nothing: it is at the test of line
\* 105 or Stopped.
C20_AtMostOneMessageAfterSignal ==
    \A w \in Reqs :
        /\ obs[w].msgAfter <= 1
        /\ obs[w].presig =>
              /\ thread[w].pc \in {"l105", "stopped"}
              /\ obs[w].fetchAfter = 0 /\ obs[w].msgAfter = 0
              /\ thread[w].sent = NoSent
              /\ \A i \in Ids : obs[w].notified[i] = 0

\* C20 witness: a stop-all set both Events; worker 1 was in an iteration, sent
\* one more message and is Stopped; worker 2 was started after its Event was
\* set and is Stopped without a fetch.
C20_Witness ==
    /\ req[3].kind = "all" /\ req[3].reply = "count"
    /\ thread[1].pc = "stopped" /\ obs[1].msgAfter = 1 /\ ~obs[1].presig
    /\ thread[2].pc = "stopped" /\ obs[2].presig /\ obs[2].fetchAfter = 0
====
